---- MODULE Spec2Model ----
(***************************************************************************)
(* Model of src/bot.py: the ArbitrageBot of a Telegram bot that polls four *)
(* exchanges for bid/ask quotes and reports cross-exchange spreads.        *)
(*                                                                         *)
(* Prices are integers (ticks).  The float expression of bot.py:62,        *)
(*   ((highest_bid - lowest_ask) / lowest_ask) * 100,                      *)
(* is kept as the exact fraction num/den with num = (bid - ask) * 100 and  *)
(* den = ask; fractions are compared by cross-multiplication, minding the *)
(* sign of den (den is never 0: a zero ask is falsy at line 43).  On the   *)
(* integer prices used here the float comparisons of the code and the      *)
(* exact ones agree.                                                       *)
(*                                                                         *)
(* A ticker field is an option: <<>> is Python's None, <<v>> the number v. *)
(* The 'last' field copied at bot.py:47 is never read again and is left    *)
(* out of the quote records.                                               *)
(***************************************************************************)
EXTENDS Integers, Sequences, FiniteSets, TLC

VARIABLES
    pc,                \* "idle" | "start" | "fetch" | "return" | "sleep"
                       \* | "done"
    cmd,               \* "none" | "scan" | "scan_all": the handler running
    pairIdx,           \* scan_multiple_pairs: index of `pair` in common_pairs
    symbol,            \* get_arbitrage_opportunities: its `symbol` argument
    exIdx,             \* index of the exchange the loop of line 40 is at
    prices,            \* the dict `prices` of line 39 (empty outside a call)
    nTickers,          \* how many calls of fetch_ticker returned a ticker
                       \* since the command arrived
    opportunities,     \* the list `opportunities` of line 36
    all_opportunities, \* the list `all_opportunities` of line 84
    result,            \* the list the handler received
    reply,             \* which message the handler sent
    returned,          \* history: what each call of the scan returned, in order
    noData             \* history: the calls of the scan that ended with no quote

vars == <<pc, cmd, pairIdx, symbol, exIdx, prices, nTickers, opportunities,
          all_opportunities, result, reply, returned, noData>>

----------------------------------------------------------------------------
(* Bounds of the model *)

\* Lowest positive price of the ticker domain, in ticks.
PriceLo == 1000

\* The positive prices are PriceLo .. PriceLo + MaxTick.
MaxTick == 3

\* While one command is handled at most MaxTickers calls of fetch_ticker
\* return a ticker; every other call raises.  /scan makes 4 calls, so the
\* bound cuts nothing there; /scan_all makes 20.
MaxTickers == 4

(* Program constants *)

\* bot.py:64  `arbitrage_percent > 0.1`, 0.1 = ThresholdNum / ThresholdDen
ThresholdNum == 1
ThresholdDen == 10

\* bot.py:62  `* 100`
Percent == 100

\* bot.py:94  `all_opportunities[:5]`
MaxResults == 5

\* bot.py:20-25: the keys of self.exchanges, in insertion order
Exchanges == <<"binance", "kucoin", "huobi", "okx">>

\* bot.py:82
common_pairs == <<"BTC/USDT", "ETH/USDT", "ADA/USDT", "DOT/USDT", "LINK/USDT">>

\* bot.py:35 and bot.py:125: the default symbol and the one /scan asks for
DefaultSymbol == "BTC/USDT"

----------------------------------------------------------------------------
(* Tickers: what exchange.fetch_ticker(symbol) can hand back *)

None == <<>>
Some(v) == <<v>>

\* Python truthiness of a ticker field (line 43): None and 0 are falsy,
\* every other number, negative ones included, is truthy.
Truthy(f) == f # None /\ f[1] # 0

NumValues == {0 - 1, 0} \cup (PriceLo .. PriceLo + MaxTick)

FieldValues == {None} \cup {Some(v) : v \in NumValues}

\* any bid and any ask, whatever the exchange, the symbol and the command
AllTickers == [bid : FieldValues, ask : FieldValues]

----------------------------------------------------------------------------
(* get_arbitrage_opportunities, lines 35-79 *)

EmptyPrices == [e \in {} |-> [bid |-> 0, ask |-> 0]]

\* lines 43-48: the dict after the ticker `t` of exchange `name` was handled
StoreTicker(p, name, t) ==
    IF Truthy(t.bid) /\ Truthy(t.ask)
    THEN [e \in (DOMAIN p) \cup {name} |->
            IF e = name THEN [bid |-> t.bid[1], ask |-> t.ask[1]] ELSE p[e]]
    ELSE p

\* prices.keys(): insertion order, which is the order of self.exchanges
IsKey(p, e) == e \in DOMAIN p
Keys(p) == SelectSeq(Exchanges, LAMBDA e : IsKey(p, e))

\* min(keys, key=...): the first key whose value is smallest
RECURSIVE MinFrom(_, _, _, _)
MinFrom(p, keys, i, best) ==
    IF i > Len(keys) THEN best
    ELSE MinFrom(p, keys, i + 1,
                 IF p[keys[i]].ask < p[best].ask THEN keys[i] ELSE best)

\* Mutant: the minimum is taken over the bids (key=... ['bid']).
LowestAskExchange_ByBid(p) ==
    LET keys == Keys(p)
        i == CHOOSE i \in 1..Len(keys) :
                /\ \A j \in 1..Len(keys) : p[keys[i]].bid <= p[keys[j]].bid
                /\ \A j \in 1..(i - 1) : p[keys[j]].bid > p[keys[i]].bid
    IN  keys[i]

LowestAskExchange(p) == MinFrom(p, Keys(p), 2, Keys(p)[1])

\* max(keys, key=...): the first key whose value is largest
RECURSIVE MaxFrom(_, _, _, _)
MaxFrom(p, keys, i, best) ==
    IF i > Len(keys) THEN best
    ELSE MaxFrom(p, keys, i + 1,
                 IF p[keys[i]].bid > p[best].bid THEN keys[i] ELSE best)

\* Mutant: min(...) where max(...) was meant.
HighestBidExchange_Min(p) ==
    LET keys == Keys(p)
        i == CHOOSE i \in 1..Len(keys) :
                /\ \A j \in 1..Len(keys) : p[keys[i]].bid <= p[keys[j]].bid
                /\ \A j \in 1..(i - 1) : p[keys[j]].bid > p[keys[i]].bid
    IN  keys[i]

HighestBidExchange(p) == MaxFrom(p, Keys(p), 2, Keys(p)[1])

\* line 62
ArbitragePercent(highest_bid, lowest_ask) ==
    [num |-> (highest_bid - lowest_ask) * Percent, den |-> lowest_ask]

\* Mutant: arbitrage_percent >= 0.1.
AboveThreshold_NotStrict(pp) ==
    IF pp.den > 0
    THEN pp.num * ThresholdDen >= ThresholdNum * pp.den
    ELSE pp.num * ThresholdDen <= ThresholdNum * pp.den

\* line 64: arbitrage_percent > 0.1
AboveThreshold(pp) ==
    IF pp.den > 0
    THEN pp.num * ThresholdDen > ThresholdNum * pp.den
    ELSE pp.num * ThresholdDen < ThresholdNum * pp.den

\* line 61
SpreadGuard(highest_bid, lowest_ask) ==
    lowest_ask > 0 /\ highest_bid > lowest_ask

\* Mutant: len(prices) >= 1.
EnoughQuotes_One(p) == Cardinality(DOMAIN p) >= 1

\* line 54
EnoughQuotes(p) == Cardinality(DOMAIN p) >= 2

\* Mutant: buy_price and sell_price take each other's value.
Opportunity_SwappedPrices(buyAt, sellAt, buyPrice, sellPrice, percent, sym) ==
    [buy_at |-> buyAt,
     sell_at |-> sellAt,
     buy_price |-> sellPrice,
     sell_price |-> buyPrice,
     profit_percent |-> percent,
     symbol |-> sym]

\* Mutant: sell_at is given lowest_ask_exchange.
Opportunity_SellAtBuyExchange(buyAt, sellAt, buyPrice, sellPrice, percent, sym) ==
    [buy_at |-> buyAt,
     sell_at |-> buyAt,
     buy_price |-> buyPrice,
     sell_price |-> sellPrice,
     profit_percent |-> percent,
     symbol |-> sym]

\* lines 65-72
Opportunity(buyAt, sellAt, buyPrice, sellPrice, percent, sym) ==
    [buy_at |-> buyAt,
     sell_at |-> sellAt,
     buy_price |-> buyPrice,
     sell_price |-> sellPrice,
     profit_percent |-> percent,
     symbol |-> sym]

\* lines 54-73: the list `opportunities` at line 79
Detect(p, sym) ==
    IF ~EnoughQuotes(p) THEN <<>>
    ELSE LET lowest_ask_exchange == LowestAskExchange(p)
             highest_bid_exchange == HighestBidExchange(p)
             lowest_ask == p[lowest_ask_exchange].ask
             highest_bid == p[highest_bid_exchange].bid
             arbitrage_percent == ArbitragePercent(highest_bid, lowest_ask)
         IN  IF SpreadGuard(highest_bid, lowest_ask)
                /\ AboveThreshold(arbitrage_percent)
             THEN << Opportunity(lowest_ask_exchange, highest_bid_exchange,
                                 lowest_ask, highest_bid,
                                 arbitrage_percent, sym) >>
             ELSE <<>>

----------------------------------------------------------------------------
(* scan_multiple_pairs, lines 81-94 *)

\* x['profit_percent'] < y['profit_percent'] on the fractions
ProfitLess(x, y) ==
    x.profit_percent.num * y.profit_percent.den
        < y.profit_percent.num * x.profit_percent.den

\* list.sort(key=..., reverse=True) is stable: an element goes after every
\* element already placed whose key is not smaller.
RECURSIVE InsertDesc(_, _)
InsertDesc(s, x) ==
    IF s = <<>> THEN <<x>>
    ELSE IF ProfitLess(Head(s), x) THEN <<x>> \o s
    ELSE <<Head(s)>> \o InsertDesc(Tail(s), x)

RECURSIVE SortFrom(_, _, _)
SortFrom(s, i, acc) ==
    IF i > Len(s) THEN acc ELSE SortFrom(s, i + 1, InsertDesc(acc, s[i]))

\* Mutant: the sort without reverse=True.
RECURSIVE InsertAsc(_, _)
InsertAsc(s, x) ==
    IF s = <<>> THEN <<x>>
    ELSE IF ProfitLess(x, Head(s)) THEN <<x>> \o s
    ELSE <<Head(s)>> \o InsertAsc(Tail(s), x)

RECURSIVE SortAscFrom(_, _, _)
SortAscFrom(s, i, acc) ==
    IF i > Len(s) THEN acc ELSE SortAscFrom(s, i + 1, InsertAsc(acc, s[i]))

SortDesc_NoReverse(s) == SortAscFrom(s, 1, <<>>)

\* line 93
SortDesc(s) == SortFrom(s, 1, <<>>)

\* line 94: a slice s[:n]
Take(s, n) == SubSeq(s, 1, IF Len(s) < n THEN Len(s) ELSE n)

\* line 85: whether the loop has another pair after the one at index i
MorePairs(i) == i < Len(common_pairs)

----------------------------------------------------------------------------
(* The handlers *)

\* lines 127 and 153: `if not opportunities`
ReplyFor(opps) == IF opps = <<>> THEN "none_found" ELSE "opportunities"

Init ==
    /\ pc = "idle"
    /\ cmd = "none"
    /\ pairIdx = 0
    /\ symbol = DefaultSymbol
    /\ exIdx = 1
    /\ prices = EmptyPrices
    /\ nTickers = 0
    /\ opportunities = <<>>
    /\ all_opportunities = <<>>
    /\ result = <<>>
    /\ reply = "none"
    /\ returned = <<>>
    /\ noData = {}

\* lines 35-39: entering get_arbitrage_opportunities(sym)
EnterGetArb(sym) ==
    /\ symbol' = sym
    /\ exIdx' = 1
    /\ prices' = EmptyPrices
    /\ opportunities' = <<>>
    /\ pc' = "fetch"

\* scan_arbitrage, lines 121-122: /scan arrives and the handler awaits its
\* first message
ScanArbitrage ==
    /\ pc = "idle"
    /\ cmd' = "scan"
    /\ reply' = "scanning"
    /\ pc' = "start"
    /\ UNCHANGED <<pairIdx, symbol, exIdx, prices, nTickers, opportunities,
                   all_opportunities, result, returned, noData>>

\* scan_all_pairs, lines 147-148: /scan_all arrives and the handler awaits
\* its first message
ScanAllPairs ==
    /\ pc = "idle"
    /\ cmd' = "scan_all"
    /\ reply' = "scanning"
    /\ pc' = "start"
    /\ UNCHANGED <<pairIdx, symbol, exIdx, prices, nTickers, opportunities,
                   all_opportunities, result, returned, noData>>

\* line 125: /scan calls get_arbitrage_opportunities('BTC/USDT')
CallGetArb ==
    /\ pc = "start"
    /\ cmd = "scan"
    /\ EnterGetArb(DefaultSymbol)
    /\ UNCHANGED <<cmd, pairIdx, nTickers, all_opportunities, result, reply,
                   returned, noData>>

\* line 151 and lines 82-87: /scan_all calls scan_multiple_pairs, which calls
\* for the first pair
CallScanMultiplePairs ==
    /\ pc = "start"
    /\ cmd = "scan_all"
    /\ pairIdx' = 1
    /\ all_opportunities' = <<>>
    /\ EnterGetArb(common_pairs[1])
    /\ UNCHANGED <<cmd, nTickers, result, reply, returned, noData>>

\* line 40 and lines 54-79: the loop moves to the next exchange; after the
\* last one the detection runs over the dict p, up to the return statement
\* (there is no await between the two)
AdvanceExchange(p) ==
    /\ exIdx' = exIdx + 1
    /\ IF exIdx = Len(Exchanges)
       THEN /\ opportunities' = Detect(p, symbol)
            /\ pc' = "return"
       ELSE /\ opportunities' = opportunities
            /\ pc' = "fetch"

\* lines 41-49: fetch_ticker returns a ticker
FetchTicker ==
    /\ pc = "fetch"
    /\ nTickers < MaxTickers
    /\ nTickers' = nTickers + 1
    /\ \E t \in AllTickers :
          prices' = StoreTicker(prices, Exchanges[exIdx], t)
    /\ AdvanceExchange(prices')
    /\ UNCHANGED <<cmd, pairIdx, symbol, all_opportunities, result, reply,
                   returned, noData>>

\* lines 50-52: fetch_ticker raises; logged, and the loop continues
FetchRaises ==
    /\ pc = "fetch"
    /\ AdvanceExchange(prices)
    /\ UNCHANGED <<cmd, pairIdx, symbol, prices, nTickers, all_opportunities,
                   result, reply, returned, noData>>

\* lines 79 and 125-142: the call returns, its locals are gone; /scan got its
\* list and replies
ScanReply ==
    /\ pc = "return"
    /\ cmd = "scan"
    /\ result' = opportunities
    /\ reply' = ReplyFor(opportunities)
    /\ prices' = EmptyPrices
    /\ pc' = "done"
    /\ UNCHANGED <<cmd, pairIdx, symbol, exIdx, nTickers, opportunities,
                   all_opportunities, returned, noData>>

\* what the scan remembers of the call that just returned
Record ==
    /\ returned' = Append(returned, opportunities)
    /\ noData' = IF DOMAIN prices = {} THEN noData \cup {pairIdx} ELSE noData

\* lines 79 and 87-89: the call returns, its locals are gone; extend, and
\* await asyncio.sleep(0.1)
ExtendAndSleep ==
    /\ pc = "return"
    /\ cmd = "scan_all"
    /\ all_opportunities' = all_opportunities \o opportunities
    /\ Record
    /\ prices' = EmptyPrices
    /\ pc' = "sleep"
    /\ UNCHANGED <<cmd, pairIdx, symbol, exIdx, nTickers, opportunities,
                   result, reply>>

\* Mutant: after a pair without any quote the scan does not go on.
ScanNextPair_AbortsOnNoData ==
    /\ pc = "sleep"
    /\ cmd = "scan_all"
    /\ MorePairs(pairIdx)
    /\ IF pairIdx \in noData
       THEN /\ all_opportunities' = SortDesc(all_opportunities)
            /\ result' = Take(all_opportunities', MaxResults)
            /\ reply' = ReplyFor(result')
            /\ pc' = "done"
            /\ UNCHANGED <<cmd, pairIdx, symbol, exIdx, prices, nTickers,
                           opportunities, returned, noData>>
       ELSE /\ pairIdx' = pairIdx + 1
            /\ EnterGetArb(common_pairs[pairIdx + 1])
            /\ UNCHANGED <<cmd, nTickers, all_opportunities, result, reply,
                           returned, noData>>

\* lines 89 and 85-87: the sleep is over; the call for the next pair
ScanNextPair ==
    /\ pc = "sleep"
    /\ cmd = "scan_all"
    /\ MorePairs(pairIdx)
    /\ pairIdx' = pairIdx + 1
    /\ EnterGetArb(common_pairs[pairIdx + 1])
    /\ UNCHANGED <<cmd, nTickers, all_opportunities, result, reply, returned,
                   noData>>

\* lines 89, 93-94 and 151-166: the sleep after the last pair is over; the
\* list is sorted in place, its slice is returned, and /scan_all replies
ScanFinish ==
    /\ pc = "sleep"
    /\ cmd = "scan_all"
    /\ ~MorePairs(pairIdx)
    /\ all_opportunities' = SortDesc(all_opportunities)
    /\ result' = Take(all_opportunities', MaxResults)
    /\ reply' = ReplyFor(result')
    /\ pc' = "done"
    /\ UNCHANGED <<cmd, pairIdx, symbol, exIdx, prices, nTickers,
                   opportunities, returned, noData>>

\* the handler has returned; the bot waits for the next command with no state
\* kept from this one (every list above is a local of its call)
NextCommand ==
    /\ pc = "done"
    /\ pc' = "idle"
    /\ cmd' = "none"
    /\ pairIdx' = 0
    /\ symbol' = DefaultSymbol
    /\ exIdx' = 1
    /\ prices' = EmptyPrices
    /\ nTickers' = 0
    /\ opportunities' = <<>>
    /\ all_opportunities' = <<>>
    /\ result' = <<>>
    /\ reply' = "none"
    /\ returned' = <<>>
    /\ noData' = {}

Next ==
    \/ ScanArbitrage
    \/ ScanAllPairs
    \/ CallGetArb
    \/ CallScanMultiplePairs
    \/ FetchTicker
    \/ FetchRaises
    \/ ScanReply
    \/ ExtendAndSleep
    \/ ScanNextPair
    \/ ScanFinish
    \/ NextCommand

Spec == Init /\ [][Next]_vars

----------------------------------------------------------------------------
(* Vocabulary of the properties, defined on the quote set alone *)

\* get_arbitrage_opportunities has run its detection over `prices` and is at
\* its return statement
Detected == pc = "return"

Asks == {prices[e].ask : e \in DOMAIN prices}
Bids == {prices[e].bid : e \in DOMAIN prices}
MinAsk == CHOOSE a \in Asks : \A b \in Asks : a <= b
MaxBid == CHOOSE a \in Bids : \A b \in Bids : a >= b
NumQuotes == Cardinality(DOMAIN prices)

\* (bid - ask) / ask * 100 compared with 0.1, for ask > 0
SpreadAbove(bid, ask) == (bid - ask) * Percent * ThresholdDen > ThresholdNum * ask
SpreadEqual(bid, ask) == (bid - ask) * Percent * ThresholdDen = ThresholdNum * ask

\* every opportunity held in some list of the program
Emitted ==
    {opportunities[i] : i \in DOMAIN opportunities}
        \cup {all_opportunities[i] : i \in DOMAIN all_opportunities}
        \cup {result[i] : i \in DOMAIN result}

----------------------------------------------------------------------------
\* C1: a quote set of at least 2 exchanges whose maximum bid exceeds its
\* minimum ask (> 0) by more than 0.1 percent yields exactly one opportunity:
\* buy_price is the minimum ask, sell_price the maximum bid, buy_at and
\* sell_at quote exactly those prices, and profit_percent is
\* (max_bid - min_ask) / min_ask * 100.
C1_ProfitableSpreadIsReported ==
    (Detected /\ NumQuotes >= 2 /\ MinAsk > 0 /\ MaxBid > MinAsk
        /\ SpreadAbove(MaxBid, MinAsk))
    => /\ Len(opportunities) = 1
       /\ LET o == opportunities[1]
          IN  /\ o.buy_price = MinAsk
              /\ o.sell_price = MaxBid
              /\ o.buy_at \in DOMAIN prices
              /\ o.sell_at \in DOMAIN prices
              /\ prices[o.buy_at].ask = MinAsk
              /\ prices[o.sell_at].bid = MaxBid
              /\ o.profit_percent.den > 0
              /\ o.profit_percent.num * MinAsk
                    = (MaxBid - MinAsk) * Percent * o.profit_percent.den
              /\ o.symbol = symbol

\* the minimum ask and the maximum bid are not at the first exchange of the
\* set, and another exchange quotes in between
C1_Witness ==
    /\ Detected /\ NumQuotes >= 3 /\ MinAsk > 0 /\ SpreadAbove(MaxBid, MinAsk)
    /\ Len(opportunities) = 1
    /\ prices[Keys(prices)[1]].ask > MinAsk
    /\ prices[Keys(prices)[1]].bid < MaxBid
    /\ opportunities[1].buy_at # opportunities[1].sell_at

\* C2: every opportunity ever emitted has sell_price > buy_price > 0, and a
\* quote set whose maximum bid is at most its minimum ask, or whose minimum
\* ask is at most 0, yields no opportunity.
C2_SellAboveBuyAboveZero ==
    /\ \A o \in Emitted : o.sell_price > o.buy_price /\ o.buy_price > 0
    /\ (Detected /\ NumQuotes >= 1 /\ (MaxBid <= MinAsk \/ MinAsk <= 0))
        => opportunities = <<>>

\* a negative minimum ask under a positive maximum bid, two quotes or more
C2_Witness ==
    /\ Detected /\ NumQuotes >= 2
    /\ MinAsk < 0 /\ MaxBid > 0
    /\ opportunities = <<>>

\* C3: with fewer than 2 quotes in the set the call returns the empty list,
\* whatever the bid and ask of the single quote.
C3_FewerThanTwoQuotes ==
    (Detected /\ NumQuotes < 2) => opportunities = <<>>

\* a single quote whose own bid is above its ask by more than the threshold
C3_Witness ==
    /\ Detected /\ NumQuotes = 1
    /\ MinAsk > 0 /\ SpreadAbove(MaxBid, MinAsk)
    /\ opportunities = <<>>

\* C4: an opportunity is emitted only with profit_percent strictly above 0.1;
\* a spread exactly at the threshold, or positive and below it, yields none.
C4_StrictlyAboveThreshold ==
    /\ \A o \in Emitted :
          /\ o.profit_percent.den > 0
          /\ o.profit_percent.num * ThresholdDen
                > ThresholdNum * o.profit_percent.den
    /\ (Detected /\ NumQuotes >= 2 /\ MinAsk > 0 /\ MaxBid > MinAsk
            /\ ~SpreadAbove(MaxBid, MinAsk))
        => opportunities = <<>>

\* two quotes or more with a spread of exactly 0.1 percent
C4_Witness ==
    /\ Detected /\ NumQuotes >= 2
    /\ MinAsk > 0 /\ SpreadEqual(MaxBid, MinAsk)
    /\ opportunities = <<>>

\* the opportunities of a list, as a set
Elems(s) == {s[i] : i \in DOMAIN s}

\* a < b for two fractions of positive denominator
RatLess(a, b) == a.num * b.den < b.num * a.den

ScanDone == pc = "done" /\ cmd = "scan_all"

\* the opportunities the calls of the scan returned, in the order collected
RECURSIVE Flatten(_, _)
Flatten(ss, i) == IF i > Len(ss) THEN <<>> ELSE ss[i] \o Flatten(ss, i + 1)
Collected == Flatten(returned, 1)

\* C5: the list scan_multiple_pairs returns is sorted in descending order of
\* profit_percent, has at most 5 entries, at most one per symbol of the fixed
\* list, and holds the highest-profit opportunities of those collected.
C5_RankedList ==
    ScanDone =>
        /\ \A i, j \in DOMAIN result :
              i < j => ~RatLess(result[i].profit_percent,
                                result[j].profit_percent)
        /\ Len(result) <= MaxResults
        /\ \A i, j \in DOMAIN result :
              i # j => result[i].symbol # result[j].symbol
        /\ \A i \in DOMAIN result :
              \E k \in DOMAIN common_pairs : result[i].symbol = common_pairs[k]
        /\ Elems(result) \subseteq Elems(Collected)
        /\ \/ Len(result) = Len(Collected)
           \/ Len(result) = MaxResults
        /\ \A o \in Elems(Collected) \ Elems(result) :
              \A r \in Elems(result) :
                 ~RatLess(r.profit_percent, o.profit_percent)

\* two opportunities or more, of different profits, collected in an order
\* that is not the ranked one
C5_Witness ==
    /\ ScanDone
    /\ Len(result) >= 2
    /\ result # Collected
    /\ RatLess(result[Len(result)].profit_percent, result[1].profit_percent)

\* steps the scan still has to take: those left in the running call, and
\* those of the calls for the pairs after it
ScanRank ==
    (Len(common_pairs) - pairIdx) * (Len(Exchanges) + 2)
        + (CASE pc = "start" -> 1
             [] pc = "fetch" -> (Len(Exchanges) - exIdx + 1) + 2
             [] pc = "return" -> 2
             [] pc = "sleep" -> 1
             [] OTHER -> 0)

ScanRunning == cmd = "scan_all" /\ pc # "done"

\* C6 (state part): the scan calls for the pairs in order, whatever the
\* earlier calls returned, it is never stuck, and its result holds every
\* opportunity any call returned.
C6_EverySymbolScanned ==
    /\ ScanRunning => ENABLED Next
    /\ (cmd = "scan_all" /\ pc \in {"fetch", "return"})
        => /\ Len(returned) = pairIdx - 1
           /\ symbol = common_pairs[pairIdx]
    /\ (cmd = "scan_all" /\ pc = "sleep")
        => /\ Len(returned) = pairIdx
           /\ symbol = common_pairs[pairIdx]
    /\ ScanDone
        => /\ Len(returned) = Len(common_pairs)
           /\ \A j \in DOMAIN returned : \A k \in DOMAIN returned[j] :
                 /\ returned[j][k].symbol = common_pairs[j]
                 /\ returned[j][k] \in Elems(result)

\* C6: symbol isolation in scan_multiple_pairs: a symbol for which every
\* fetch fails does not stop the scan, which goes on through the remaining
\* symbols in order, terminates (every step of a running scan is a step of
\* the scan that lowers ScanRank, and one is always enabled), and returns the
\* opportunities of all the other symbols.
C6_SymbolIsolation ==
    /\ []C6_EverySymbolScanned
    /\ [][ScanRunning => (cmd' = "scan_all" /\ ScanRank' < ScanRank)]_vars

\* the first and the third symbol had no quote at all, the second and the
\* fourth an opportunity, and both opportunities are in the result
C6_Witness ==
    /\ ScanDone
    /\ {1, 3} \subseteq noData
    /\ returned[2] # <<>> /\ returned[4] # <<>>
    /\ returned[2][1] \in Elems(result) /\ returned[4][1] \in Elems(result)

\* C7: an exchange whose fetch raises, or whose ticker lacks a bid or an ask
\* (missing or zero), is absent from the quote set; the other entries are
\* untouched and the loop goes on to the next exchange; an exchange is in
\* the set only with the bid > 0 and the ask > 0 it returned.
C7_ExchangeIsolation ==
    [][pc = "fetch" =>
        LET name == Exchanges[exIdx]
        IN  /\ exIdx' = exIdx + 1
            /\ pc' \in {"fetch", "return"}
            /\ (pc' = "return") <=> (exIdx = Len(Exchanges))
            /\ \A e \in DOMAIN prices :
                  e # name => (e \in DOMAIN prices' /\ prices'[e] = prices[e])
            /\ DOMAIN prices' \subseteq (DOMAIN prices) \cup {name}
            /\ (name \in DOMAIN prices')
                => (prices'[name].bid > 0 /\ prices'[name].ask > 0)
    ]_vars

\* C8: the value returned when no exchange gave a quote differs from the
\* value returned when quotes were there but no profitable spread was.
C8_NoDataDistinguishable ==
    \A i, j \in DOMAIN returned :
        (i \in noData /\ j \notin noData /\ returned[j] = <<>>)
            => returned[i] # returned[j]

\* (bid_y - ask_x) / ask_x * 100 as a fraction
PairPercent(x, y) ==
    [num |-> (prices[y].bid - prices[x].ask) * Percent, den |-> prices[x].ask]

\* C9: in a quote set with positive asks no ordered pair of exchanges yields
\* a higher profit percent than the emitted opportunity, and when a set of 2
\* or more quotes yields none, no pair is above the 0.1 threshold.
C9_MinAskMaxBidDominates ==
    (Detected /\ \A e \in DOMAIN prices : prices[e].ask > 0)
    => /\ \A o \in Elems(opportunities) : \A x, y \in DOMAIN prices :
             ~RatLess(o.profit_percent, PairPercent(x, y))
       /\ (opportunities = <<>> /\ NumQuotes >= 2)
            => \A x, y \in DOMAIN prices :
                  ~SpreadAbove(prices[y].bid, prices[x].ask)

\* an opportunity is emitted although the first two exchanges of the set
\* form a pair that is above the threshold too, with a lower profit
C9_Witness ==
    /\ Detected /\ NumQuotes >= 3
    /\ \A e \in DOMAIN prices : prices[e].ask > 0
    /\ opportunities # <<>>
    /\ LET x == Keys(prices)[1]
           y == Keys(prices)[2]
       IN  /\ SpreadAbove(prices[y].bid, prices[x].ask)
           /\ RatLess(PairPercent(x, y), opportunities[1].profit_percent)

\* C10: if every quote of the set has bid <= ask on its own exchange, every
\* emitted opportunity buys and sells at different exchanges.
C10_DistinctExchanges ==
    (Detected /\ \A e \in DOMAIN prices : prices[e].bid <= prices[e].ask)
    => \A o \in Elems(opportunities) : o.buy_at # o.sell_at

\* no crossed book, and an opportunity between two exchanges
C10_Witness ==
    /\ Detected
    /\ \A e \in DOMAIN prices : prices[e].bid <= prices[e].ask
    /\ opportunities # <<>>
    /\ opportunities[1].buy_at # opportunities[1].sell_at

====
